---- MODULE Spec2Model ----
(***************************************************************************)
(* A model of the alx-backend-python exercises: the Django middleware of   *)
(* the messaging application (rate limiting, role check, opening hours),   *)
(* its ORM signal handlers, permissions and cached view, the sqlite3       *)
(* decorators, the batch generators, the utilities access_nested_map and   *)
(* memoize, and the concurrent aiosqlite queries.  Each part is an         *)
(* independent state machine with its own specification; the variables of  *)
(* the other parts stay at their initial values.                           *)
(***************************************************************************)
EXTENDS Integers, Sequences, FiniteSets, Bags, TLC

VARIABLES
    \* OffensiveLanguageMiddleware (messaging/middleware.py)
    now,              \* timezone.now().timestamp(), in whole seconds
    message_tracker,  \* self.message_tracker: ip -> list of timestamps
    post_log,         \* every POST handled so far: ip, time, forwarded or not
    rate_response,    \* what the last call of the middleware returned
    \* RolePermissionMiddleware (messaging/middleware.py)
    role_log,         \* every request handled so far, with its outcome
    \* The messaging database (chats/models.py)
    users,                      \* User rows: user_id -> role, is_staff
    next_user_id,               \* user ids are never used twice
    conversations,              \* Conversation rows: the conversation ids
    conversation_participants,  \* rows of the participants many-to-many table
    messages,                   \* Message rows: message_id -> fields
    next_message_id,            \* message ids are never used twice
    message_history,            \* MessageHistory rows, oldest first
    notifications,              \* Notification rows, as a bag
    save_calls,                 \* every body-changing save() of a stored message
    \* retry_on_failure (python-decorators-0x01/3-retry_on_failure.py)
    rt_pc,          \* "idle", "loop" (in the for loop), "returned" or "raised"
    rt_retries,     \* the decorator's argument
    rt_attempt,     \* the loop variable
    rt_last_error,  \* last_error
    rt_calls,       \* the outcome of every invocation of the wrapped function
    rt_result,      \* what the wrapper returned or raised
    \* transactional (python-decorators-0x01/2-transactional.py)
    tx_call,        \* the last call: the function's outcome, the calls made on
                    \* the connection, what the wrapper returned or raised
    \* cache_query (python-decorators-0x01/4-cache_query.py)
    query_cache,    \* the global dictionary: query -> results
    cache_calls,    \* every call of the wrapper so far, with its outcome
    \* RestrictAccessByTimeMiddleware (messaging/middleware.py)
    time_log,       \* every request handled so far: clock reading and outcome
    \* cached_conversation_messages (messaging/views.py)
    cp_now,            \* the clock of the cache, in whole seconds
    cp_message_count,  \* conversation -> number of Message rows it has
    page_cache,        \* cache key -> the stored response and its expiry
    cp_log,            \* every GET answered so far
    \* stream_users_in_batches, lazy_paginate (python-generators-0x00)
    user_data,         \* the rows of table user_data, in query order
    generators,        \* generator function -> the state of one generator object
    \* access_nested_map (0x03-Unittests_and_integration_tests/utils.py)
    anm_call,          \* the last call: nested_map, path and what came back
    \* memoize (0x03-Unittests_and_integration_tests/utils.py)
    memo_attrs,        \* instance -> the value of its attribute _<name>, once set
    memo_log,          \* every access of the memoized property so far
    \* fetch_concurrently (python-context-async-perations-0x02/3-concurrent.py)
    db_users,          \* the rows of table users in users.db
    fc_tasks,          \* coroutine -> its position, connection and rows
    fc_connections,    \* connection id -> "open" or "closed"
    fc_finished,       \* the coroutines in the order they finished
    fc_gather          \* the gather: waiting, returned (with the list) or raised

rateVars == <<now, message_tracker, post_log, rate_response>>
roleVars == <<role_log>>
msgVars == <<users, next_user_id, conversations, conversation_participants, messages,
             next_message_id, message_history, notifications, save_calls>>

retryVars == <<rt_pc, rt_retries, rt_attempt, rt_last_error, rt_calls, rt_result>>
txVars == <<tx_call>>
cacheVars == <<query_cache, cache_calls>>
decoVars == <<retryVars, txVars, cacheVars>>
timeVars == <<time_log>>
cpVars == <<cp_now, cp_message_count, page_cache, cp_log>>
genVars == <<user_data, generators>>
anmVars == <<anm_call>>
memoVars == <<memo_attrs, memo_log>>
fcVars == <<db_users, fc_tasks, fc_connections, fc_finished, fc_gather>>

vars == <<rateVars, roleVars, msgVars, retryVars, txVars, cacheVars,
    timeVars, cpVars, genVars, anmVars, memoVars, fcVars>>

NotRate == UNCHANGED <<roleVars, msgVars, retryVars, txVars, cacheVars,
    timeVars, cpVars, genVars, anmVars, memoVars, fcVars>>
NotRole == UNCHANGED <<rateVars, msgVars, retryVars, txVars, cacheVars,
    timeVars, cpVars, genVars, anmVars, memoVars, fcVars>>
NotMsg == UNCHANGED <<rateVars, roleVars, retryVars, txVars, cacheVars,
    timeVars, cpVars, genVars, anmVars, memoVars, fcVars>>
NotRetry == UNCHANGED <<rateVars, roleVars, msgVars, txVars, cacheVars,
    timeVars, cpVars, genVars, anmVars, memoVars, fcVars>>
NotTx == UNCHANGED <<rateVars, roleVars, msgVars, retryVars, cacheVars,
    timeVars, cpVars, genVars, anmVars, memoVars, fcVars>>
NotCache == UNCHANGED <<rateVars, roleVars, msgVars, retryVars, txVars,
    timeVars, cpVars, genVars, anmVars, memoVars, fcVars>>
NotTime == UNCHANGED <<rateVars, roleVars, msgVars, retryVars, txVars,
    cacheVars, cpVars, genVars, anmVars, memoVars, fcVars>>
NotCp == UNCHANGED <<rateVars, roleVars, msgVars, retryVars, txVars,
    cacheVars, timeVars, genVars, anmVars, memoVars, fcVars>>
NotGen == UNCHANGED <<rateVars, roleVars, msgVars, retryVars, txVars,
    cacheVars, timeVars, cpVars, anmVars, memoVars, fcVars>>
NotAnm == UNCHANGED <<rateVars, roleVars, msgVars, retryVars, txVars,
    cacheVars, timeVars, cpVars, genVars, memoVars, fcVars>>
NotMemo == UNCHANGED <<rateVars, roleVars, msgVars, retryVars, txVars,
    cacheVars, timeVars, cpVars, genVars, anmVars, fcVars>>
NotFc == UNCHANGED <<rateVars, roleVars, msgVars, retryVars, txVars,
    cacheVars, timeVars, cpVars, genVars, anmVars, memoVars>>

None == "None"

(***************************************************************************)
(* OffensiveLanguageMiddleware                                             *)
(***************************************************************************)
max_messages == 5
time_window == 60

\* The clock is read up to MaxTime; at most MaxPosts POSTs are logged.
MaxTime == 60
MaxPosts == 7

IPs == {"192.168.1.100", "192.168.1.200"}
HttpMethods == {"GET", "POST"}
\* The instants at which the clock is read: the multiples of the window,
\* one second before and one second after each.
Instants ==
    {t \in 0..MaxTime : t % time_window \in {0, 1, time_window - 1}}
\* HTTP_X_FORWARDED_FOR, split on ',': absent (empty) or a list of addresses.
ForwardedFor == {<<>>} \cup {<<a>> : a \in IPs} \cup {<<a, b>> : a, b \in IPs}

Requests == [method : HttpMethods, remote_addr : IPs, forwarded_for : ForwardedFor]

get_client_ip(request) ==
    IF request.forwarded_for # <<>>
    THEN Head(request.forwarded_for)
    ELSE request.remote_addr

\* The timestamps of the tracker entry that are newer than the cutoff.
RecentTimestamps(timestamps, cutoff_time) ==
    SelectSeq(timestamps, LAMBDA timestamp : timestamp > cutoff_time)

LimitExceededOffByOne(timestamps) == Len(timestamps) > max_messages

LimitExceeded(timestamps) == Len(timestamps) >= max_messages

TrackerOf(ip) == IF ip \in DOMAIN message_tracker THEN message_tracker[ip] ELSE <<>>

RateInit ==
    /\ now = 0
    /\ message_tracker = [ip \in {} |-> <<>>]
    /\ post_log = <<>>
    /\ rate_response = [method |-> None, ip |-> None, status |-> 0, next_called |-> FALSE]

\* Time passes between two requests.
Tick ==
    /\ \E t \in Instants :
        /\ t > now
        /\ now' = t
    /\ UNCHANGED <<message_tracker, post_log, rate_response>>
    /\ NotRate

\* if request.method == 'POST'
IsTrackedAnyMethod(request) == TRUE

IsTracked(request) == request.method = "POST"

\* self.message_tracker[ip_address] = timestamps
TrackerUpdateShared(tracker, ip_address, timestamps) ==
    [ip \in DOMAIN tracker \cup {ip_address} |-> timestamps]

TrackerUpdate(tracker, ip_address, timestamps) ==
    (ip_address :> timestamps) @@ tracker

\* OffensiveLanguageMiddleware.__call__: one request through the middleware.
OffensiveLanguageCall ==
    /\ NotRate
    /\ \E request \in Requests :
        IF IsTracked(request)
        THEN /\ Len(post_log) < MaxPosts
             /\ LET ip_address == get_client_ip(request)
                    cutoff_time == now - time_window
                    kept == RecentTimestamps(TrackerOf(ip_address), cutoff_time)
                IN  IF LimitExceeded(kept)
                    THEN /\ message_tracker' =
                                TrackerUpdate(message_tracker, ip_address, kept)
                         /\ post_log' = Append(post_log,
                                [ip |-> ip_address, t |-> now, forwarded |-> FALSE])
                         /\ rate_response' = [method |-> request.method,
                                              ip |-> ip_address,
                                              status |-> 403, next_called |-> FALSE]
                    ELSE /\ message_tracker' =
                                TrackerUpdate(message_tracker, ip_address,
                                              Append(kept, now))
                         /\ post_log' = Append(post_log,
                                [ip |-> ip_address, t |-> now, forwarded |-> TRUE])
                         /\ rate_response' = [method |-> request.method,
                                              ip |-> ip_address,
                                              status |-> 200, next_called |-> TRUE]
             /\ UNCHANGED now
        ELSE /\ rate_response' = [method |-> request.method,
                                  ip |-> get_client_ip(request),
                                  status |-> 200, next_called |-> TRUE]
             /\ UNCHANGED <<now, message_tracker, post_log>>

RateNext == Tick \/ OffensiveLanguageCall

\* The POSTs of post_log before the i-th, from the same address, that were
\* forwarded less than time_window seconds before it.
ForwardedBefore(i) ==
    {j \in 1..(i - 1) :
        /\ post_log[j].ip = post_log[i].ip
        /\ post_log[j].forwarded
        /\ post_log[j].t > post_log[i].t - time_window}

\* The POSTs of one address forwarded in the window [start, start + time_window).
ForwardedInWindow(ip, start) ==
    {j \in 1..Len(post_log) :
        /\ post_log[j].ip = ip
        /\ post_log[j].forwarded
        /\ post_log[j].t >= start
        /\ post_log[j].t < start + time_window}

\* A window that holds the most forwarded POSTs can be moved to start at one of
\* them, so these starts stand for every window.
WindowStarts == {post_log[j].t : j \in 1..Len(post_log)}

\* C1: a POST is passed to the next handler exactly when fewer than 5 POSTs of
\* its address were forwarded in the 60 seconds before it, and is answered 403
\* without reaching the next handler otherwise; so no 60-second window holds
\* more than 5 forwarded POSTs of one address.
C1_RateLimit ==
    /\ \A i \in 1..Len(post_log) :
            post_log[i].forwarded <=> Cardinality(ForwardedBefore(i)) < max_messages
    /\ \A ip \in IPs : \A start \in WindowStarts :
            Cardinality(ForwardedInWindow(ip, start)) <= max_messages
    /\ rate_response.method = "POST" =>
            /\ post_log # <<>>
            /\ rate_response.ip = post_log[Len(post_log)].ip
            /\ rate_response.next_called = post_log[Len(post_log)].forwarded
            /\ rate_response.status = IF rate_response.next_called THEN 200 ELSE 403

\* A sixth POST of an address was refused and, once the window had passed, a
\* later POST of the same address was forwarded.
C1_Witness ==
    \E i, j \in 1..Len(post_log) :
        /\ i < j
        /\ post_log[i].ip = post_log[j].ip
        /\ ~post_log[i].forwarded
        /\ Cardinality(ForwardedBefore(i)) = max_messages
        /\ post_log[j].forwarded

\* C12: a POST changes the recorded timestamps of its own address only, and
\* it is refused only when its own address has max_messages timestamps inside
\* the window; the timestamps of other addresses play no part.
C12_SeparateLimits ==
    [][post_log' # post_log =>
        LET post == post_log'[Len(post_log')]
        IN  /\ DOMAIN message_tracker' = DOMAIN message_tracker \cup {post.ip}
            /\ \A ip \in DOMAIN message_tracker \ {post.ip} :
                   message_tracker'[ip] = message_tracker[ip]
            /\ ~post.forwarded =>
                   Len(RecentTimestamps(TrackerOf(post.ip), post.t - time_window))
                       >= max_messages]_vars

\* One address was refused its sixth POST and, in the same second, a POST of
\* the other address was forwarded.
C12_Witness ==
    \E i, j \in 1..Len(post_log) :
        /\ i < j
        /\ post_log[i].ip # post_log[j].ip
        /\ ~post_log[i].forwarded
        /\ post_log[j].forwarded
        /\ post_log[j].t = post_log[i].t
        /\ Len(message_tracker[post_log[i].ip]) = max_messages

\* C13: a GET always reaches the next handler and leaves message_tracker as
\* it was, whatever the state of its address.
C13_GetNotLimited ==
    [][rate_response'.method = "GET" =>
        /\ rate_response'.next_called
        /\ rate_response'.status = 200
        /\ message_tracker' = message_tracker]_vars

\* The address that was just refused a POST sends a GET, which is passed on.
C13_Witness ==
    /\ rate_response.method = "GET"
    /\ rate_response.next_called
    /\ post_log # <<>>
    /\ post_log[Len(post_log)].ip = rate_response.ip
    /\ post_log[Len(post_log)].t = now
    /\ ~post_log[Len(post_log)].forwarded
    /\ Len(RecentTimestamps(TrackerOf(rate_response.ip), now - time_window))
           >= max_messages

(***************************************************************************)
(* RolePermissionMiddleware                                                *)
(***************************************************************************)
MaxRoleRequests == 2

\* User.ROLE_CHOICES, and a role the model does not know.
Roles == {"guest", "host", "admin", "moderator", "owner"}
\* request.user: authenticated or not, with a role, a role of None, or no
\* role attribute at all.
RequestUsers ==
    [is_authenticated : BOOLEAN, has_role : BOOLEAN, role : Roles \cup {None}]

allowed_roles == {"admin", "moderator"}

\* getattr(request.user, 'role', None)
user_role_of(user) == IF user.has_role THEN user.role ELSE None

RolePermissionStatusNoAuthCheck(user) ==
    IF user_role_of(user) \notin allowed_roles THEN 403 ELSE 200

\* The status RolePermissionMiddleware.__call__ answers with; 200 is the next
\* handler's response.
RolePermissionStatus(user) ==
    IF user.is_authenticated
    THEN IF user_role_of(user) \notin allowed_roles THEN 403 ELSE 200
    ELSE 403

RoleInit == role_log = <<>>

RolePermissionCall ==
    /\ Len(role_log) < MaxRoleRequests
    /\ \E user \in RequestUsers :
        LET status == RolePermissionStatus(user)
        IN  role_log' = Append(role_log,
                [user |-> user, status |-> status, next_called |-> (status = 200)])
    /\ NotRole

RoleNext == RolePermissionCall

\* C10: a request reaches the next handler if and only if its user is
\* authenticated with role 'admin' or 'moderator'; every other request is
\* answered 403 and the next handler is not called.
C10_RolePermission ==
    \A i \in 1..Len(role_log) :
        LET e == role_log[i]
            permitted == /\ e.user.is_authenticated
                         /\ e.user.has_role
                         /\ e.user.role \in {"admin", "moderator"}
        IN  /\ e.next_called <=> permitted
            /\ ~permitted => e.status = 403 /\ ~e.next_called

\* A moderator was let through and an unauthenticated admin was refused.
C10_Witness ==
    \E i, j \in 1..Len(role_log) :
        /\ role_log[i].user.is_authenticated
        /\ role_log[i].user.has_role
        /\ role_log[i].user.role = "moderator"
        /\ role_log[i].next_called
        /\ ~role_log[j].user.is_authenticated
        /\ role_log[j].user.role = "admin"
        /\ role_log[j].status = 403

(***************************************************************************)
(* The messaging application: models, signals, permissions, views          *)
(***************************************************************************)
MaxUsers == 3
MaxConversations == 1
MaxMessages == 2
MaxEdits == 1

Bodies == {"Version 1", "Version 2"}
\* The users of the model: guests, and admins who are staff (is_staff or
\* is_superuser).
UserKinds == {[role |-> "guest", is_staff |-> FALSE],
              [role |-> "admin", is_staff |-> TRUE]}
\* A null foreign key or a missing id (ids start at 1).
NoId == 0

Participants(conversation) ==
    {u \in DOMAIN users : <<conversation, u>> \in conversation_participants}

IsAdmin(user) == users[user].is_staff

\* IsParticipantOfConversation.has_permission
has_permission(user, view, action, conv_id) ==
    IF user \notin DOMAIN users
    THEN FALSE
    ELSE IF view = "MessageViewSet" /\ action = "create"
         THEN IF conv_id = NoId
              THEN FALSE
              ELSE IF conv_id \notin conversations
                   THEN FALSE
                   ELSE IF IsAdmin(user)
                        THEN TRUE
                        ELSE user \in Participants(conv_id)
         ELSE TRUE

\* IsParticipantOfConversation.has_object_permission; obj is a Conversation or
\* a Message, given by its kind and id.
has_object_permission(user, method, obj) ==
    IF IsAdmin(user)
    THEN TRUE
    ELSE IF obj.kind = "Conversation"
         THEN user \in Participants(obj.id)
         ELSE IF obj.kind = "Message"
              THEN IF method \in {"GET", "HEAD", "OPTIONS"}
                   THEN IF messages[obj.id].sender = user
                        THEN TRUE
                        ELSE user \in Participants(messages[obj.id].conversation)
                   ELSE IF method \in {"PUT", "PATCH", "DELETE"}
                        THEN IF messages[obj.id].sender = user
                             THEN TRUE
                             ELSE user \in Participants(messages[obj.id].conversation)
                        ELSE FALSE
              ELSE FALSE

\* ConversationViewSet.get_queryset
ConversationQueryset(user) ==
    IF user \notin DOMAIN users
    THEN {}
    ELSE IF IsAdmin(user)
         THEN conversations
         ELSE {c \in conversations : user \in Participants(c)}

\* MessageViewSet.get_queryset
MessageQueryset(user) ==
    IF user \notin DOMAIN users
    THEN {}
    ELSE {m \in DOMAIN messages :
            \/ messages[m].sender = user
            \/ user \in Participants(messages[m].conversation)}

\* get_object() of a detail route: the object is in the view's queryset and
\* the permission class allows the request.
CanAccessConversation(user, method, c) ==
    /\ c \in ConversationQueryset(user)
    /\ has_permission(user, "ConversationViewSet", "detail", NoId)
    /\ has_object_permission(user, method, [kind |-> "Conversation", id |-> c])

CanAccessMessage(user, method, m) ==
    /\ m \in MessageQueryset(user)
    /\ has_permission(user, "MessageViewSet", "detail", NoId)
    /\ has_object_permission(user, method, [kind |-> "Message", id |-> m])

\* The fields of the MessageHistory model, and the keyword arguments the
\* pre_save handler passes to MessageHistory.objects.create.
MessageHistoryFields == {"history_id", "message", "old_content", "edited_at"}
HistoryCreateKwargs == {"message", "old_content", "edited_by"}

\* Model.__init__ raises TypeError for keyword arguments that name no field.
UnexpectedKwargs(kwargs, fields) == kwargs \ fields

\* What log_message_edit (pre_save) does for an instance with this primary key
\* and body: "pass" (no stored row: DoesNotExist), "unchanged", "TypeError"
\* (MessageHistory.objects.create raised) or "logged".
log_message_edit(pk, message_body) ==
    IF pk \notin DOMAIN messages
    THEN "pass"
    ELSE IF messages[pk].message_body = message_body
         THEN "unchanged"
         ELSE IF UnexpectedKwargs(HistoryCreateKwargs, MessageHistoryFields) # {}
              THEN "TypeError"
              ELSE "logged"

\* instance.conversation.participants.exclude(user_id=instance.sender.user_id)
ReceiversIncludingSender(conversation, sender) == Participants(conversation)

Receivers(conversation, sender) == Participants(conversation) \ {sender}

NewNotifications(receivers, message, type) ==
    SetToBag({[user |-> r, message |-> message, notification_type |-> type,
               read |-> FALSE] : r \in receivers})

\* The rows of a table with duplicates that are in the set keep.
BagKeep(bag, keep) == [x \in DOMAIN bag \cap keep |-> bag[x]]

\* on_delete=CASCADE of Message.parent_message: messages of the table msgs
\* together with their replies.
RECURSIVE WithReplies(_, _)
WithReplies(msgs, ms) ==
    LET more == ms \cup {m \in DOMAIN msgs : msgs[m].parent_message \in ms}
    IN  IF more = ms THEN ms ELSE WithReplies(msgs, more)

\* The messages deleted with a user: on_delete=CASCADE of Message.sender.
CascadedMessages(msgs, user) ==
    WithReplies(msgs, {m \in DOMAIN msgs : msgs[m].sender = user})

\* User.objects.filter(role='admin') in the post_delete handler: the deleted
\* row is gone when the handler runs.
AdminUsersBeforeDelete(user) == {a \in DOMAIN users : users[a].role = "admin"}

AdminUsers(user) == {a \in DOMAIN users \ {user} : users[a].role = "admin"}

MsgInit ==
    /\ users = [u \in {} |-> 0]
    /\ next_user_id = 1
    /\ conversations = {}
    /\ conversation_participants = {}
    /\ messages = [m \in {} |-> 0]
    /\ next_message_id = 1
    /\ message_history = <<>>
    /\ notifications = EmptyBag
    /\ save_calls = <<>>

\* User.objects.create_user
CreateUser ==
    /\ next_user_id <= MaxUsers
    /\ \E kind \in UserKinds :
        users' = (next_user_id :> kind) @@ users
    /\ next_user_id' = next_user_id + 1
    /\ UNCHANGED <<conversations, conversation_participants, messages, next_message_id,
                   message_history, notifications, save_calls>>
    /\ NotMsg

\* ConversationViewSet.create: any authenticated user, at least two participants.
CreateConversation ==
    /\ Cardinality(conversations) < MaxConversations
    /\ \E participant_ids \in SUBSET DOMAIN users :
        /\ \E request_user \in DOMAIN users :
               has_permission(request_user, "ConversationViewSet", "create", NoId)
        /\ Cardinality(participant_ids) >= 2
        /\ LET c == Cardinality(conversations) + 1
           IN  /\ conversations' = conversations \cup {c}
               /\ conversation_participants' =
                      conversation_participants \cup {<<c, u>> : u \in participant_ids}
    /\ UNCHANGED <<users, next_user_id, messages, next_message_id, message_history,
                   notifications, save_calls>>
    /\ NotMsg

\* ConversationViewSet.add_participant
AddParticipant ==
    /\ \E c \in conversations, user \in DOMAIN users :
        /\ \E request_user \in DOMAIN users :
               CanAccessConversation(request_user, "POST", c)
        /\ user \notin Participants(c)
        /\ conversation_participants' = conversation_participants \cup {<<c, user>>}
    /\ UNCHANGED <<users, next_user_id, conversations, messages, next_message_id,
                   message_history, notifications, save_calls>>
    /\ NotMsg

\* ConversationViewSet.remove_participant
RemoveParticipant ==
    /\ \E c \in conversations, user \in DOMAIN users :
        /\ \E request_user \in DOMAIN users :
               CanAccessConversation(request_user, "POST", c)
        /\ user \in Participants(c)
        /\ conversation_participants' = conversation_participants \ {<<c, user>>}
    /\ UNCHANGED <<users, next_user_id, conversations, messages, next_message_id,
                   message_history, notifications, save_calls>>
    /\ NotMsg

\* Message.objects.create(sender, conversation, message_body) with its signals:
\* pre_save finds no stored row, the row is inserted, post_save (created)
\* notifies the receivers.
MessageCreated(sender, conversation, message_body) ==
    /\ log_message_edit(next_message_id, message_body) = "pass"
    /\ messages' = (next_message_id :>
                       [sender |-> sender, conversation |-> conversation,
                        message_body |-> message_body, read |-> FALSE,
                        edited |-> FALSE, parent_message |-> NoId]) @@ messages
    /\ next_message_id' = next_message_id + 1
    /\ notifications' = notifications (+)
           NewNotifications(Receivers(conversation, sender), next_message_id,
                            "new_message")
    /\ UNCHANGED <<users, next_user_id, conversations, conversation_participants,
                   message_history, save_calls>>

\* ConversationViewSet.send_message
SendMessage ==
    /\ next_message_id <= MaxMessages
    /\ \E c \in conversations, sender \in DOMAIN users, message_body \in Bodies :
        /\ \E request_user \in DOMAIN users :
            /\ CanAccessConversation(request_user, "POST", c)
            /\ \/ sender \in Participants(c)
               \/ IsAdmin(request_user)
               \/ request_user = sender
        /\ MessageCreated(sender, c, message_body)
    /\ NotMsg

\* MessageViewSet.create: the serializer takes sender_id, conversation and
\* message_body from the request.
CreateMessage ==
    /\ next_message_id <= MaxMessages
    /\ \E c \in conversations, sender \in DOMAIN users, message_body \in Bodies :
        /\ \E request_user \in DOMAIN users :
               has_permission(request_user, "MessageViewSet", "create", c)
        /\ MessageCreated(sender, c, message_body)
    /\ NotMsg

\* message.save() of a stored message with its signals.  pre_save runs first:
\* when the body differs from the stored one it creates the history row, sets
\* edited and notifies the receivers; an exception it raises ends the save
\* with nothing written.
MessageSaved(m, message_body, read) ==
    LET outcome == log_message_edit(m, message_body)
        old_body == messages[m].message_body
        sender == messages[m].sender
    IN  /\ save_calls' = IF outcome \in {"TypeError", "logged"}
                         THEN Append(save_calls,
                                     [message |-> m, old_body |-> old_body,
                                      new_body |-> message_body,
                                      raised |-> IF outcome = "TypeError"
                                                 THEN "TypeError" ELSE None])
                         ELSE save_calls
        /\ IF outcome = "TypeError"
           THEN UNCHANGED <<messages, message_history, notifications>>
           ELSE /\ messages' = [messages EXCEPT
                       ![m].message_body = message_body,
                       ![m].read = read,
                       ![m].edited = IF outcome = "logged" THEN TRUE ELSE @]
                /\ message_history' =
                       IF outcome = "logged"
                       THEN Append(message_history,
                                   [message |-> m, old_content |-> old_body])
                       ELSE message_history
                /\ notifications' =
                       IF outcome = "logged"
                       THEN notifications (+)
                            NewNotifications(
                                Receivers(messages[m].conversation, sender), m,
                                "message_edited")
                       ELSE notifications
        /\ UNCHANGED <<users, next_user_id, conversations, conversation_participants,
                       next_message_id>>

\* MessageViewSet.partial_update of message_body.
EditMessage ==
    /\ Len(save_calls) < MaxEdits
    /\ \E m \in DOMAIN messages, message_body \in Bodies :
        /\ \E request_user \in DOMAIN users :
               CanAccessMessage(request_user, "PATCH", m)
        /\ MessageSaved(m, message_body, messages[m].read)
    /\ NotMsg

\* MessageViewSet.mark_as_read
MarkAsRead ==
    /\ \E m \in DOMAIN messages :
        /\ \E request_user \in DOMAIN users :
               CanAccessMessage(request_user, "POST", m)
        /\ MessageSaved(m, messages[m].message_body, TRUE)
    /\ NotMsg

\* delete_user: user.delete().  The collector deletes the rows that reference
\* the user (on_delete=CASCADE) and then the user; post_delete then runs
\* delete_user_related_data, which deletes the user's messages and
\* notifications again and notifies the admins.
DeleteUser ==
    /\ \E user \in DOMAIN users :
        LET gone == CascadedMessages(messages, user)
            collected_messages == [m \in DOMAIN messages \ gone |-> messages[m]]
            collected_notifications ==
                BagKeep(notifications,
                        {n \in DOMAIN notifications :
                            n.user # user /\ n.message \notin gone})
            \* delete_user_related_data
            deleted_messages == CascadedMessages(collected_messages, user)
            handler_notifications ==
                BagKeep(collected_notifications,
                        {n \in DOMAIN collected_notifications :
                            n.user # user /\ n.message \notin deleted_messages})
        IN  /\ messages' = [m \in DOMAIN collected_messages \ deleted_messages |->
                                collected_messages[m]]
            /\ message_history' =
                   SelectSeq(message_history,
                             LAMBDA h : h.message \notin (gone \cup deleted_messages))
            /\ conversation_participants' =
                   {row \in conversation_participants : row[2] # user}
            /\ users' = [u \in DOMAIN users \ {user} |-> users[u]]
            /\ notifications' = handler_notifications (+)
                   NewNotifications(AdminUsers(user), NoId, "user_deleted")
    /\ UNCHANGED <<next_user_id, conversations, next_message_id, save_calls>>
    /\ NotMsg

MsgNext ==
    \/ CreateUser
    \/ CreateConversation
    \/ AddParticipant
    \/ RemoveParticipant
    \/ SendMessage
    \/ CreateMessage
    \/ EditMessage
    \/ MarkAsRead
    \/ DeleteUser

\* The signal handlers at work: messages are sent and edited, participants
\* leave, users delete their accounts.
SignalsNext ==
    \/ CreateUser
    \/ CreateConversation
    \/ RemoveParticipant
    \/ SendMessage
    \/ EditMessage
    \/ DeleteUser

\* Conversations in use: participants join and leave, messages are sent and
\* marked as read.
ConversationsNext ==
    \/ CreateUser
    \/ CreateConversation
    \/ AddParticipant
    \/ RemoveParticipant
    \/ SendMessage
    \/ MarkAsRead

\* The Notification rows that refer to message m.
NotificationsOf(bag, m) == BagKeep(bag, {n \in DOMAIN bag : n.message = m})

\* C2: the step that creates a message creates, for that message, exactly one
\* unread 'new_message' notification for each participant of its conversation
\* other than the sender, none for the sender, and no other notification.
C2_NewMessageNotifications ==
    [][next_message_id' # next_message_id =>
        LET m == next_message_id
        IN  /\ m \in DOMAIN messages'
            /\ NotificationsOf(notifications', m) =
                   SetToBag({[user |-> r, message |-> m,
                              notification_type |-> "new_message", read |-> FALSE] :
                             r \in Participants(messages'[m].conversation)
                                       \ {messages'[m].sender}})
            /\ \A n \in DOMAIN notifications' :
                   n.message # m =>
                       /\ n \in DOMAIN notifications
                       /\ notifications'[n] = notifications[n]]_vars

\* A message sent by a participant produced notifications for two other
\* participants and none for its sender.
C2_Witness ==
    \E m \in DOMAIN messages : \E r1, r2 \in DOMAIN users :
        /\ r1 # r2
        /\ messages[m].sender \notin {r1, r2}
        /\ <<messages[m].conversation, messages[m].sender>> \in conversation_participants
        /\ \A r \in {r1, r2} :
               CopiesIn([user |-> r, message |-> m,
                         notification_type |-> "new_message", read |-> FALSE],
                        notifications) = 1

\* The MessageHistory rows of message m, oldest first.
HistoryOf(m) == SelectSeq(message_history, LAMBDA h : h.message = m)

\* The body-changing saves of message m, oldest first.
SavesOf(m) == SelectSeq(save_calls, LAMBDA c : c.message = m)

\* C3: every body-changing save of a stored message has left one history row
\* holding the body before that save, in the order of the saves, and the
\* message is flagged as edited.
C3_EditHistory ==
    \A m \in DOMAIN messages :
        /\ [i \in 1..Len(HistoryOf(m)) |-> HistoryOf(m)[i].old_content] =
               [i \in 1..Len(SavesOf(m)) |-> SavesOf(m)[i].old_body]
        /\ SavesOf(m) # <<>> => messages[m].edited

\* C14: the step that saves a changed body of a stored message adds, for that
\* message, exactly one 'message_edited' notification for each participant of
\* its conversation other than the sender.
C14_EditNotifications ==
    [][save_calls' # save_calls =>
        LET m == save_calls'[Len(save_calls')].message
        IN  NotificationsOf(notifications', m) =
                NotificationsOf(notifications, m) (+)
                SetToBag({[user |-> r, message |-> m,
                           notification_type |-> "message_edited", read |-> FALSE] :
                          r \in Participants(messages[m].conversation)
                                    \ {messages[m].sender}})]_vars

\* The users that were created and deleted since.
DeletedUsers == (1..(next_user_id - 1)) \ DOMAIN users

\* C4: of a deleted user no sent message and no notification addressed to the
\* user remains.
C4_UserDeletionCleanup ==
    \A u \in DeletedUsers :
        /\ \A m \in DOMAIN messages : messages[m].sender # u
        /\ \A n \in DOMAIN notifications : n.user # u

\* A user who had sent a message was deleted, the message went with the user,
\* and an admin was told.
C4_Witness ==
    /\ DeletedUsers # {}
    /\ (1..(next_message_id - 1)) \ DOMAIN messages # {}
    /\ \E n \in DOMAIN notifications : n.notification_type = "user_deleted"

ObjectMethods == {"GET", "HEAD", "OPTIONS", "PUT", "PATCH", "DELETE", "POST"}

\* C5: a user who is neither admin nor participant of a message's conversation
\* is denied every access to the message and may not send to the conversation.
C5_OnlyParticipants ==
    \A u \in DOMAIN users : \A m \in DOMAIN messages :
        (~IsAdmin(u) /\ u \notin Participants(messages[m].conversation)) =>
            /\ \A method \in ObjectMethods :
                   ~has_object_permission(u, method, [kind |-> "Message", id |-> m])
            /\ ~has_permission(u, "MessageViewSet", "create", messages[m].conversation)

\* self.filter(conversation__participants=user, read=False): the join of the
\* messages with the participant rows of their conversations; a message comes
\* once for each row that matches.
UnreadJoin(user) ==
    LET rows(m) == {row \in conversation_participants :
                       row[1] = messages[m].conversation /\ row[2] = user}
        hit == {m \in DOMAIN messages : ~messages[m].read /\ rows(m) # {}}
    IN  [m \in hit |-> Cardinality(rows(m))]

unread_for_user_with_own(user) == UnreadJoin(user)

\* UnreadMessagesManager.unread_for_user: message id -> number of result rows.
unread_for_user(user) ==
    LET joined == UnreadJoin(user)
    IN  [m \in {x \in DOMAIN joined : messages[x].sender # user} |-> joined[m]]

\* C9: unread_for_user(u) returns, once each, exactly the unread messages of
\* the conversations u takes part in that u did not send; a message saved with
\* read=True is returned for nobody.
C9_UnreadForUser ==
    \A u \in DOMAIN users :
        /\ DOMAIN unread_for_user(u) =
               {m \in DOMAIN messages :
                   /\ ~messages[m].read
                   /\ u \in Participants(messages[m].conversation)
                   /\ messages[m].sender # u}
        /\ \A m \in DOMAIN unread_for_user(u) : unread_for_user(u)[m] = 1
        /\ \A m \in DOMAIN messages :
               messages[m].read => m \notin DOMAIN unread_for_user(u)

\* One message is returned for a participant and withheld from its sender, who
\* is a participant too, and another message has been marked as read.
C9_Witness ==
    \E m1, m2 \in DOMAIN messages : \E u \in DOMAIN users :
        /\ messages[m1].read
        /\ ~messages[m2].read
        /\ m2 \in DOMAIN unread_for_user(u)
        /\ messages[m2].sender \in Participants(messages[m2].conversation)
        /\ m2 \notin DOMAIN unread_for_user(messages[m2].sender)
        /\ u \in Participants(messages[m1].conversation)

(***************************************************************************)
(* The sqlite3 decorators                                                  *)
(***************************************************************************)
MaxRetries == 2
MaxCacheCalls == 3

\* What a call of a wrapped function does: it returns a value, raises an
\* sqlite3.Error, raises another Exception, or raises a BaseException that is
\* no Exception (KeyboardInterrupt, SystemExit).
Values == {"rows_a", "rows_b"}
ExceptionTypes == {"sqlite3.Error", "ValueError"}
BaseOnlyTypes == {"KeyboardInterrupt"}
Returns == [kind : {"return"}, value : Values]
NoResult == [kind |-> "none"]

\* An exception object: its type and the call that raised it (for the retry
\* loop the number of the invocation, 0 for the raise statement itself; for a
\* transaction 1 for the function, 2 for commit, 3 for rollback).
Raised(type, by) == [kind |-> "raise", type |-> type, by |-> by]

IsException(type) == type \in ExceptionTypes
IsSqliteError(type) == type = "sqlite3.Error"

\* --- retry_on_failure ---------------------------------------------------
\* range(retries + 1)
AttemptsOneLess(retries) == IF retries > 0 THEN retries ELSE 0

Attempts(retries) == IF retries + 1 > 0 THEN retries + 1 ELSE 0

RetryInit ==
    /\ rt_pc = "idle"
    /\ rt_retries = 0
    /\ rt_attempt = 0
    /\ rt_last_error = NoResult
    /\ rt_calls = <<>>
    /\ rt_result = NoResult

\* The decorated function is called: retry_on_failure(retries=n)(func)().
RetryCall ==
    /\ rt_pc = "idle"
    /\ \E n \in (0 - 1)..MaxRetries : rt_retries' = n
    /\ rt_pc' = "loop"
    /\ rt_attempt' = 0
    /\ rt_last_error' = NoResult
    /\ UNCHANGED <<rt_calls, rt_result>>
    /\ NotRetry

\* One iteration of the for loop: the wrapped function is invoked.  Its value
\* is returned; an sqlite3.Error is kept in last_error and the loop goes on;
\* any other exception leaves the wrapper.
RetryAttempt ==
    /\ rt_pc = "loop"
    /\ rt_attempt < Attempts(rt_retries)
    /\ LET by == Len(rt_calls) + 1
       IN  \/ \E r \in Returns :
                /\ rt_calls' = Append(rt_calls, r)
                /\ rt_result' = r
                /\ rt_pc' = "returned"
                /\ UNCHANGED <<rt_attempt, rt_last_error>>
           \/ \E type \in ExceptionTypes \cup BaseOnlyTypes :
                /\ rt_calls' = Append(rt_calls, Raised(type, by))
                /\ IF IsSqliteError(type)
                   THEN /\ rt_last_error' = Raised(type, by)
                        /\ rt_attempt' = rt_attempt + 1
                        /\ UNCHANGED <<rt_pc, rt_result>>
                   ELSE /\ rt_result' = Raised(type, by)
                        /\ rt_pc' = "raised"
                        /\ UNCHANGED <<rt_attempt, rt_last_error>>
    /\ UNCHANGED rt_retries
    /\ NotRetry

\* The loop is over: raise last_error.  last_error is still None when the
\* loop body never ran, and raising None is a TypeError.
RetryExhausted ==
    /\ rt_pc = "loop"
    /\ rt_attempt >= Attempts(rt_retries)
    /\ rt_result' = IF rt_last_error = NoResult
                    THEN Raised("TypeError", 0)
                    ELSE rt_last_error
    /\ rt_pc' = "raised"
    /\ UNCHANGED <<rt_retries, rt_attempt, rt_last_error, rt_calls>>
    /\ NotRetry

\* --- transactional ------------------------------------------------------
\* What conn.commit() and conn.rollback() do: succeed, or raise an
\* sqlite3.Error of their own.
ConnOutcomes == {"ok", "error"}
FuncOutcomes ==
    Returns \cup {Raised(type, 1) : type \in ExceptionTypes \cup BaseOnlyTypes}

\* except Exception
CaughtAll(outcome) == outcome.kind = "raise"

Caught(outcome) == outcome.kind = "raise" /\ IsException(outcome.type)

TxInit == tx_call = [func |-> NoResult, conn |-> <<>>, result |-> NoResult]

\* The whole wrapper: func(conn, ...), then commit and return, or rollback and
\* raise.  commit is inside the try block.
transactional(func, commit, rollback) ==
    LET rolled_back(e) ==
            [ops |-> <<[op |-> "rollback", outcome |-> rollback]>>,
             result |-> IF rollback = "ok" THEN e
                        ELSE Raised("sqlite3.Error", 3)]
    IN  IF func.kind = "return"
        THEN IF commit = "ok"
             THEN [func |-> func,
                   conn |-> <<[op |-> "commit", outcome |-> "ok"]>>,
                   result |-> func]
             ELSE LET e == Raised("sqlite3.Error", 2)
                  IN  [func |-> func,
                       conn |-> <<[op |-> "commit", outcome |-> "error"]>>
                                \o rolled_back(e).ops,
                       result |-> rolled_back(e).result]
        ELSE IF Caught(func)
             THEN [func |-> func, conn |-> rolled_back(func).ops,
                   result |-> rolled_back(func).result]
             ELSE [func |-> func, conn |-> <<>>, result |-> func]

TransactionalCall ==
    /\ \E func \in FuncOutcomes, commit \in ConnOutcomes, rollback \in ConnOutcomes :
        tx_call' = transactional(func, commit, rollback)
    /\ NotTx

\* --- cache_query --------------------------------------------------------
Queries == {"SELECT * FROM users", "SELECT * FROM users WHERE active = 1"}

CacheInit ==
    /\ query_cache = [q \in {} |-> None]
    /\ cache_calls = <<>>

\* if query in query_cache
CacheHitNever(query) == FALSE

CacheHit(query) == query \in DOMAIN query_cache

\* The wrapper: a cached query returns the stored results; otherwise the
\* function runs, and its results are stored when it returns.
CacheQueryCall ==
    /\ Len(cache_calls) < MaxCacheCalls
    /\ \E query \in Queries :
        IF CacheHit(query)
        THEN /\ cache_calls' = Append(cache_calls,
                    [query |-> query, executed |-> FALSE,
                     result |-> [kind |-> "return", value |-> query_cache[query]]])
             /\ UNCHANGED query_cache
        ELSE \E func \in FuncOutcomes :
                /\ cache_calls' = Append(cache_calls,
                       [query |-> query, executed |-> TRUE, result |-> func])
                /\ query_cache' = IF func.kind = "return"
                                  THEN (query :> func.value) @@ query_cache
                                  ELSE query_cache
    /\ NotCache

DecoInit == RetryInit /\ TxInit /\ CacheInit

RetryTxNext ==
    \/ RetryCall
    \/ RetryAttempt
    \/ RetryExhausted
    \/ TransactionalCall

CacheNext == CacheQueryCall

\* C6: retry_on_failure(retries=n), n >= 0: the wrapped function is invoked
\* again only after an sqlite3.Error and at most n+1 times; the wrapper ends
\* with the outcome of the last invocation, which is the first successful
\* result, or an exception that is no sqlite3.Error, or, after n+1 failed
\* attempts, the error of attempt n+1; it never gives up after an
\* sqlite3.Error while attempts remain.
C6_RetryOnFailure ==
    rt_retries >= 0 /\ rt_pc # "idle" =>
        /\ Len(rt_calls) <= rt_retries + 1
        /\ \A i \in 1..(Len(rt_calls) - 1) :
              rt_calls[i].kind = "raise" /\ IsSqliteError(rt_calls[i].type)
        /\ rt_pc \in {"returned", "raised"} =>
              /\ Len(rt_calls) >= 1
              /\ rt_result = rt_calls[Len(rt_calls)]
              /\ (rt_pc = "returned") = (rt_result.kind = "return")
              /\ rt_result.kind = "raise" /\ IsSqliteError(rt_result.type)
                    => Len(rt_calls) = rt_retries + 1

\* retries=1: two attempts failed with sqlite3.Error, the second is raised.
C6_Witness ==
    /\ rt_pc = "raised"
    /\ rt_retries = 1
    /\ Len(rt_calls) = 2
    /\ rt_result = Raised("sqlite3.Error", 2)

ConnOps == {tx_call.conn[i].op : i \in 1..Len(tx_call.conn)}

EarlierCalls(i) == {j \in 1..(i - 1) : cache_calls[j].query = cache_calls[i].query}

\* C8 as stated: the wrapped function is executed exactly for the first call
\* with a given query string; every later call with that query string returns
\* the stored result of the first one without executing the function.
C8_CacheQuery ==
    \A i \in 1..Len(cache_calls) :
        /\ cache_calls[i].executed = (EarlierCalls(i) = {})
        /\ ~cache_calls[i].executed =>
              \A j \in EarlierCalls(i) :
                  cache_calls[j].executed => cache_calls[i].result = cache_calls[j].result

Stored(i) == {j \in EarlierCalls(i) :
                cache_calls[j].executed /\ cache_calls[j].result.kind = "return"}

\* C8, amended: the wrapped function is executed for a call exactly when no
\* earlier call with the same query string executed it and returned normally;
\* there is at most one such earlier call, and a call that does not execute
\* the function returns that call's result.
C8_CacheQueryAmended ==
    \A i \in 1..Len(cache_calls) :
        /\ cache_calls[i].executed = (Stored(i) = {})
        /\ Cardinality(Stored(i)) <= 1
        /\ ~cache_calls[i].executed =>
              \A j \in Stored(i) : cache_calls[i].result = cache_calls[j].result

\* The same query twice: the second call is answered from the cache.
C8_Witness ==
    /\ Len(cache_calls) >= 2
    /\ cache_calls[1].query = cache_calls[2].query
    /\ cache_calls[1].executed
    /\ ~cache_calls[2].executed
    /\ cache_calls[2].result = cache_calls[1].result

(***************************************************************************)
(* RestrictAccessByTimeMiddleware                                          *)
(***************************************************************************)
MaxTimeRequests == 2

start_hour == 18
end_hour == 21

\* timezone.now(): the minute of the day, read on the hour and one minute
\* before the next hour.
ClockReadings == {h * 60 + m : h \in 0..23, m \in {0, 59}}

\* current_time.hour
hour_of(current_time) == current_time \div 60

\* if current_hour < self.start_hour or current_hour >= self.end_hour
AccessDeniedEndInclusive(current_hour) ==
    current_hour < start_hour \/ current_hour > end_hour

AccessDenied(current_hour) ==
    current_hour < start_hour \/ current_hour >= end_hour

TimeInit == time_log = <<>>

\* RestrictAccessByTimeMiddleware.__call__
RestrictAccessByTimeCall ==
    /\ Len(time_log) < MaxTimeRequests
    /\ \E current_time \in ClockReadings :
        LET current_hour == hour_of(current_time)
        IN  time_log' = Append(time_log,
                IF AccessDenied(current_hour)
                THEN [current_time |-> current_time, status |-> 403,
                      next_called |-> FALSE]
                ELSE [current_time |-> current_time, status |-> 200,
                      next_called |-> TRUE])
    /\ NotTime

TimeNext == RestrictAccessByTimeCall

\* C16: a request reaches the next handler exactly when the clock reads
\* 18:00 up to 20:59; at any other time it is answered 403 and the next
\* handler is not called.
C16_RestrictAccessByTime ==
    \A i \in 1..Len(time_log) :
        LET e == time_log[i]
            allowed == e.current_time >= 18 * 60 /\ e.current_time < 21 * 60
        IN  /\ e.next_called <=> allowed
            /\ ~allowed => e.status = 403 /\ ~e.next_called
            /\ allowed => e.status = 200

\* A request at 20:59 was passed on and a request at 21:00 was refused.
C16_Witness ==
    \E i, j \in 1..Len(time_log) :
        /\ time_log[i].current_time = 20 * 60 + 59
        /\ time_log[i].next_called
        /\ time_log[j].current_time = 21 * 60
        /\ time_log[j].status = 403
        /\ ~time_log[j].next_called

(***************************************************************************)
(* cached_conversation_messages: a view behind cache_page(60)              *)
(***************************************************************************)
MaxCpTime == 61
MaxCpMessages == 1
MaxCpRequests == 3

\* @cache_page(60)
page_timeout == 60

ConversationIds == {"c1", "c2"}
\* The clock is read at the multiples of the timeout, one second before and
\* one second after each.
CpInstants == {t \in 0..MaxCpTime : t % page_timeout \in {0, 1, page_timeout - 1}}

\* An authenticated GET: the conversation_id of the query string, and whether
\* request.user is a participant of that conversation.
CpRequests == [conversation_id : ConversationIds, is_participant : BOOLEAN]

\* The cache key is made from the URL, which carries the conversation_id.
cache_key(request) == request.conversation_id

\* A stored page is served until its timeout has passed.
HasExpiredNever(entry, t) == FALSE

HasExpired(entry, t) == entry.expires <= t

IsCached(key) ==
    key \in DOMAIN page_cache /\ ~HasExpired(page_cache[key], cp_now)

\* The body of the view: 403 for a user who is no participant, else the
\* messages of the conversation as they are now.
ViewResponse(request) ==
    IF ~request.is_participant
    THEN [status |-> 403, message_count |-> 0]
    ELSE [status |-> 200,
          message_count |-> cp_message_count[request.conversation_id]]

CpInit ==
    /\ cp_now = 0
    /\ cp_message_count = [c \in ConversationIds |-> 0]
    /\ page_cache = [k \in {} |-> None]
    /\ cp_log = <<>>

\* Time passes between two requests.
CpTick ==
    /\ \E t \in CpInstants :
        /\ t > cp_now
        /\ cp_now' = t
    /\ UNCHANGED <<cp_message_count, page_cache, cp_log>>
    /\ NotCp

\* Message.objects.create(conversation=...): one more message.
CpNewMessage ==
    /\ \E c \in ConversationIds :
        /\ cp_message_count[c] < MaxCpMessages
        /\ cp_message_count' = [cp_message_count EXCEPT ![c] = @ + 1]
    /\ UNCHANGED <<cp_now, page_cache, cp_log>>
    /\ NotCp

\* One GET of the view: cache_page answers from the cache when it holds a
\* page for the key; otherwise the view runs, and a 200 response is stored for
\* page_timeout seconds.
CachedConversationMessagesGet ==
    /\ Len(cp_log) < MaxCpRequests
    /\ \E request \in CpRequests :
        LET key == cache_key(request)
            cached == IsCached(key)
            response == IF cached THEN page_cache[key].response
                        ELSE ViewResponse(request)
        IN  /\ cp_log' = Append(cp_log,
                   [conversation_id |-> request.conversation_id,
                    t |-> cp_now,
                    status |-> response.status,
                    message_count |-> response.message_count,
                    from_cache |-> cached,
                    current_count |-> cp_message_count[request.conversation_id]])
            /\ page_cache' =
                   IF ~cached /\ response.status = 200
                   THEN (key :> [response |-> response,
                                 expires |-> cp_now + page_timeout]) @@ page_cache
                   ELSE page_cache
    /\ UNCHANGED <<cp_now, cp_message_count>>
    /\ NotCp

CpNext == CpTick \/ CpNewMessage \/ CachedConversationMessagesGet

\* The successful responses the view computed for the same conversation_id
\* less than page_timeout seconds before the j-th GET.
FirstResponses(j) ==
    {i \in 1..(j - 1) :
        /\ cp_log[i].conversation_id = cp_log[j].conversation_id
        /\ cp_log[i].status = 200
        /\ ~cp_log[i].from_cache
        /\ cp_log[j].t < cp_log[i].t + page_timeout}

\* C11: a GET less than 60 seconds after a first successful response for the
\* same conversation_id returns that response's data, whatever was added since;
\* a successful GET with no such response behind it shows the messages the
\* conversation has now.
C11_CachedConversationMessages ==
    \A j \in 1..Len(cp_log) :
        /\ \A i \in FirstResponses(j) :
              /\ cp_log[j].from_cache
              /\ cp_log[j].status = 200
              /\ cp_log[j].message_count = cp_log[i].message_count
        /\ FirstResponses(j) = {} /\ cp_log[j].status = 200 =>
              /\ ~cp_log[j].from_cache
              /\ cp_log[j].message_count = cp_log[j].current_count

\* A page computed at second 0 was served again at second 59 although a message
\* had been added, and at second 60 the new message showed.
C11_Witness ==
    /\ Len(cp_log) = 3
    /\ \A i \in 1..3 : cp_log[i].conversation_id = cp_log[1].conversation_id
    /\ cp_log[1].t = 0 /\ cp_log[2].t = page_timeout - 1 /\ cp_log[3].t = page_timeout
    /\ cp_log[2].from_cache
    /\ cp_log[2].message_count = cp_log[1].message_count
    /\ cp_log[2].current_count > cp_log[2].message_count
    /\ ~cp_log[3].from_cache
    /\ cp_log[3].message_count = cp_log[2].current_count

(***************************************************************************)
(* stream_users_in_batches and lazy_paginate                               *)
(***************************************************************************)
MaxRows == 4
MaxBatchSize == 3

GeneratorFunctions == {"stream_users_in_batches", "lazy_paginate"}

\* SELECT ... FROM user_data LIMIT limit OFFSET offset; cursor.fetchall()
Fetch(table, limit, offset) ==
    IF offset + 1 > Len(table) \/ limit <= 0
    THEN <<>>
    ELSE SubSeq(table, offset + 1,
                IF offset + limit < Len(table) THEN offset + limit ELSE Len(table))

\* offset += batch_size
NextOffsetByOne(offset, batch_size) == offset + 1

NextOffset(offset, batch_size) == offset + batch_size

NewGenerator ==
    [pc |-> "idle", batch_size |-> 0, offset |-> 0, yielded |-> <<>>,
     fetches |-> 0, error |-> FALSE]

GenInit ==
    /\ user_data = <<>>
    /\ generators = [g \in GeneratorFunctions |-> NewGenerator]

\* seed.insert_data: one more row; the table is filled before the generators
\* are made and stays as it is from then on.
InsertRow ==
    /\ Len(user_data) < MaxRows
    /\ \A g \in GeneratorFunctions : generators[g].pc = "idle"
    /\ user_data' = Append(user_data, Len(user_data) + 1)
    /\ UNCHANGED generators
    /\ NotGen

\* The generator function is called: stream_users_in_batches(n) or
\* lazy_paginate(n).  Nothing runs before the first next().
GeneratorCall ==
    /\ \E g \in GeneratorFunctions, n \in 0..MaxBatchSize :
        /\ generators[g].pc = "idle"
        /\ generators' = [generators EXCEPT
               ![g] = [NewGenerator EXCEPT !.pc = "running", !.batch_size = n]]
    /\ UNCHANGED user_data
    /\ NotGen

\* next() on the generator: one fetch at the current offset; an empty fetch
\* ends the generator, any other is yielded and the offset moves on.
GeneratorNext ==
    /\ \E g \in GeneratorFunctions :
        LET gen == generators[g]
            batch == Fetch(user_data, gen.batch_size, gen.offset)
        IN  /\ gen.pc = "running"
            /\ generators' = [generators EXCEPT ![g] =
                   IF batch = <<>>
                   THEN [gen EXCEPT !.pc = "done", !.fetches = @ + 1]
                   ELSE [gen EXCEPT !.yielded = Append(@, batch),
                                    !.fetches = @ + 1,
                                    !.offset = NextOffset(@, gen.batch_size)]]
    /\ UNCHANGED user_data
    /\ NotGen

\* next() when the database fails: stream_users_in_batches prints the
\* mysql.connector.Error and ends; out of lazy_paginate the exception reaches
\* the caller.  Either way the generator is finished.
GeneratorFetchError ==
    /\ \E g \in GeneratorFunctions :
        /\ generators[g].pc = "running"
        /\ generators' = [generators EXCEPT ![g].pc = "done", ![g].error = TRUE]
    /\ UNCHANGED user_data
    /\ NotGen

GenNext == InsertRow \/ GeneratorCall \/ GeneratorNext \/ GeneratorFetchError

RECURSIVE Concat(_)
Concat(batches) ==
    IF batches = <<>> THEN <<>> ELSE Head(batches) \o Concat(Tail(batches))

\* C15: with batch size n >= 1 and no database error, the batches yielded so
\* far are non-empty, of exactly n rows except that the last may be shorter,
\* and their concatenation is the table's rows from the first on, in order;
\* each next() made one fetch; the generator is done after the one fetch that
\* came back empty, and then the concatenation is the whole table.
C15_Batches ==
    \A g \in GeneratorFunctions :
        LET gen == generators[g]
            rows == Concat(gen.yielded)
            k == Len(gen.yielded)
        IN  gen.pc # "idle" /\ gen.batch_size >= 1 /\ ~gen.error =>
                /\ \A i \in 1..k : Len(gen.yielded[i]) \in 1..gen.batch_size
                /\ \A i \in 1..(k - 1) : Len(gen.yielded[i]) = gen.batch_size
                /\ Len(rows) <= Len(user_data)
                /\ rows = SubSeq(user_data, 1, Len(rows))
                /\ gen.pc = "running" => gen.fetches = k
                /\ gen.pc = "done" => gen.fetches = k + 1 /\ rows = user_data

\* Both generators went through a table of three rows in batches of two.
C15_Witness ==
    /\ Len(user_data) = 3
    /\ \A g \in GeneratorFunctions :
        /\ generators[g].pc = "done"
        /\ ~generators[g].error
        /\ generators[g].batch_size = 2
        /\ generators[g].yielded = <<SubSeq(user_data, 1, 2), SubSeq(user_data, 3, 3)>>
        /\ generators[g].fetches = 3

(***************************************************************************)
(* access_nested_map                                                       *)
(***************************************************************************)
MaxPathLen == 2

Keys == {"a", "b"}

\* Python values: integers, and mappings of up to two levels.
IntValue(n) == [kind |-> "int", int |-> n]
MapValue(items) == [kind |-> "map", items |-> items]

Ints == {IntValue(1), IntValue(2)}
FlatMaps == {MapValue(items) : items \in UNION {[D -> Ints] : D \in SUBSET Keys}}
NestedMaps ==
    {MapValue(items) :
        items \in UNION {[D -> Ints \cup FlatMaps] : D \in SUBSET Keys}}
Paths == UNION {[1..n -> Keys] : n \in 0..MaxPathLen}

\* isinstance(nested_map, Mapping)
IsMapping(value) == value.kind = "map"

\* raise KeyError(key), and the KeyError of nested_map[key]
RaiseKeyErrorFirst(path, i) == [kind |-> "KeyError", key |-> path[1]]

RaiseKeyError(path, i) == [kind |-> "KeyError", key |-> path[i]]

\* The for loop from the i-th key of path on.
RECURSIVE FollowFrom(_, _, _)
FollowFrom(nested_map, path, i) ==
    IF i > Len(path)
    THEN [kind |-> "return", value |-> nested_map]
    ELSE IF ~IsMapping(nested_map)
         THEN RaiseKeyError(path, i)
         ELSE IF path[i] \notin DOMAIN nested_map.items
              THEN RaiseKeyError(path, i)
              ELSE FollowFrom(nested_map.items[path[i]], path, i + 1)

access_nested_map(nested_map, path) == FollowFrom(nested_map, path, 1)

AnmInit ==
    anm_call = [nested_map |-> MapValue(<<>>), path |-> <<>>,
                result |-> [kind |-> "none"]]

AccessNestedMapCall ==
    /\ \E nested_map \in NestedMaps, path \in Paths :
        anm_call' = [nested_map |-> nested_map, path |-> path,
                     result |-> access_nested_map(nested_map, path)]
    /\ NotAnm

AnmNext == AccessNestedMapCall

\* The values met on the way: Reached(m, p)[i + 1] is the value after the
\* first i keys, as far as the keys can be followed.
RECURSIVE Reached(_, _)
Reached(value, path) ==
    IF path # <<>> /\ value.kind = "map" /\ Head(path) \in DOMAIN value.items
    THEN <<value>> \o Reached(value.items[Head(path)], Tail(path))
    ELSE <<value>>

\* C18: when every key of path can be followed the value reached is returned;
\* otherwise KeyError is raised with the first key that cannot be followed,
\* because it is missing or because the value reached is no mapping.
C18_AccessNestedMap ==
    anm_call.result.kind # "none" =>
        LET reached == Reached(anm_call.nested_map, anm_call.path)
            followed == Len(reached) - 1
        IN  IF followed = Len(anm_call.path)
            THEN anm_call.result = [kind |-> "return", value |-> reached[followed + 1]]
            ELSE anm_call.result =
                     [kind |-> "KeyError", key |-> anm_call.path[followed + 1]]

\* {"a": 1} with path ("a", "b"): KeyError('b').
C18_Witness ==
    /\ anm_call.nested_map = MapValue([k \in {"a"} |-> IntValue(1)])
    /\ anm_call.path = <<"a", "b">>
    /\ anm_call.result = [kind |-> "KeyError", key |-> "b"]

(***************************************************************************)
(* memoize                                                                 *)
(***************************************************************************)
MaxAccesses == 3

Instances == {"obj1", "obj2"}

\* What a run of the underlying method does: it returns a value, which may
\* differ from run to run, or raises.
MethodOutcomes ==
    {[kind |-> "return", value |-> v] : v \in {41, 42}}
        \cup {[kind |-> "raise", value |-> 0]}

\* hasattr(self, attr_name)
HasAttrNever(attrs, obj) == FALSE

HasAttr(attrs, obj) == obj \in DOMAIN attrs

MemoInit ==
    /\ memo_attrs = [obj \in {} |-> 0]
    /\ memo_log = <<>>

\* One access of the property, obj.a_property: memoized(self).
MemoizedAccess ==
    /\ Len(memo_log) < MaxAccesses
    /\ \E obj \in Instances :
        IF HasAttr(memo_attrs, obj)
        THEN /\ memo_log' = Append(memo_log,
                    [instance |-> obj, ran |-> FALSE,
                     result |-> [kind |-> "return", value |-> memo_attrs[obj]]])
             /\ UNCHANGED memo_attrs
        ELSE \E outcome \in MethodOutcomes :
                /\ memo_log' = Append(memo_log,
                       [instance |-> obj, ran |-> TRUE, result |-> outcome])
                /\ memo_attrs' = IF outcome.kind = "return"
                                 THEN (obj :> outcome.value) @@ memo_attrs
                                 ELSE memo_attrs
    /\ NotMemo

MemoNext == MemoizedAccess

\* The accesses of the same instance before the i-th.
EarlierAccesses(i) ==
    {j \in 1..(i - 1) : memo_log[j].instance = memo_log[i].instance}

\* C17 as stated: on each instance the method runs on the first access and on
\* no other, and every access returns the result of that first run.
C17_Memoize ==
    \A i \in 1..Len(memo_log) :
        /\ memo_log[i].ran = (EarlierAccesses(i) = {})
        /\ \A j \in EarlierAccesses(i) :
              EarlierAccesses(j) = {} => memo_log[i].result = memo_log[j].result

\* The earlier accesses of the same instance whose run returned.
FirstRuns(i) ==
    {j \in EarlierAccesses(i) :
        memo_log[j].ran /\ memo_log[j].result.kind = "return"}

\* C17, amended: on each instance the method runs on an access exactly when no
\* earlier access of that instance ran it to a normal return; at most one run
\* per instance returns, and every access after it returns that run's result;
\* accesses of other instances play no part.
C17_MemoizeAmended ==
    \A i \in 1..Len(memo_log) :
        /\ memo_log[i].ran = (FirstRuns(i) = {})
        /\ Cardinality(FirstRuns(i)) <= 1
        /\ \A j \in FirstRuns(i) : memo_log[i].result = memo_log[j].result

\* obj1 and obj2 each ran the method once, with different results, and a
\* second access of obj1 returned obj1's result without a run.
C17_Witness ==
    /\ Len(memo_log) = 3
    /\ memo_log[1].instance = "obj1" /\ memo_log[1].ran
    /\ memo_log[2].instance = "obj2" /\ memo_log[2].ran
    /\ memo_log[1].result.kind = "return" /\ memo_log[2].result.kind = "return"
    /\ memo_log[1].result # memo_log[2].result
    /\ memo_log[3].instance = "obj1" /\ ~memo_log[3].ran
    /\ memo_log[3].result = memo_log[1].result

(***************************************************************************)
(* fetch_concurrently                                                      *)
(***************************************************************************)
MaxDbUsers == 2

\* The arguments of asyncio.gather, in order.
Coroutines == <<"async_fetch_users", "async_fetch_older_users">>
CoroutineNames == {Coroutines[i] : i \in 1..Len(Coroutines)}

Ages == {30, 45}

\* "SELECT * FROM users" and "SELECT * FROM users WHERE age > 40"
Query(coroutine, table) ==
    IF coroutine = "async_fetch_users"
    THEN table
    ELSE SelectSeq(table, LAMBDA user : user.age > 40)

\* aiosqlite.connect('users.db'): every call opens a connection of its own.
NewConnection(connections) == Cardinality(DOMAIN connections) + 1

\* asyncio.gather: the results in the order of its arguments.
GatherResultsAsFinished(tasks, finished) ==
    [i \in 1..Len(Coroutines) |-> tasks[finished[i]].rows]

GatherResults(tasks, finished) ==
    [i \in 1..Len(Coroutines) |-> tasks[Coroutines[i]].rows]

NewTask == [pc |-> "ready", conn |-> NoId, seen |-> <<>>, rows |-> <<>>]

FcInit ==
    /\ db_users = <<>>
    /\ fc_tasks = [c \in CoroutineNames |-> [NewTask EXCEPT !.pc = "idle"]]
    /\ fc_connections = [c \in {} |-> "closed"]
    /\ fc_finished = <<>>
    /\ fc_gather = [pc |-> "idle", result |-> <<>>]

\* Another process adds a user to users.db.
InsertDbUser ==
    /\ Len(db_users) < MaxDbUsers
    /\ \E age \in Ages :
        db_users' = Append(db_users, [id |-> Len(db_users) + 1, age |-> age])
    /\ UNCHANGED <<fc_tasks, fc_connections, fc_finished, fc_gather>>
    /\ NotFc

\* fetch_concurrently(): gather schedules both coroutines.
FetchConcurrentlyCall ==
    /\ fc_gather.pc = "idle"
    /\ fc_gather' = [fc_gather EXCEPT !.pc = "waiting"]
    /\ fc_tasks' = [c \in CoroutineNames |-> NewTask]
    /\ UNCHANGED <<db_users, fc_connections, fc_finished>>
    /\ NotFc

\* async with aiosqlite.connect('users.db') as db
Connect ==
    /\ \E c \in CoroutineNames :
        LET conn == NewConnection(fc_connections)
        IN  /\ fc_tasks[c].pc = "ready"
            /\ fc_connections' = (conn :> "open") @@ fc_connections
            /\ fc_tasks' = [fc_tasks EXCEPT ![c].pc = "connected", ![c].conn = conn]
    /\ UNCHANGED <<db_users, fc_finished, fc_gather>>
    /\ NotFc

\* db.execute(...) and await cursor.fetchall(): the rows as they are now.
Fetchall ==
    /\ \E c \in CoroutineNames :
        /\ fc_tasks[c].pc = "connected"
        /\ fc_connections[fc_tasks[c].conn] = "open"
        /\ fc_tasks' = [fc_tasks EXCEPT ![c].pc = "fetched",
                                        ![c].seen = db_users,
                                        ![c].rows = Query(c, db_users)]
    /\ UNCHANGED <<db_users, fc_connections, fc_finished, fc_gather>>
    /\ NotFc

\* Leaving the async with blocks: the connection is closed and the coroutine
\* returns its rows.
CloseAndReturn ==
    /\ \E c \in CoroutineNames :
        /\ fc_tasks[c].pc = "fetched"
        /\ fc_connections' = [fc_connections EXCEPT ![fc_tasks[c].conn] = "closed"]
        /\ fc_tasks' = [fc_tasks EXCEPT ![c].pc = "done"]
        /\ fc_finished' = Append(fc_finished, c)
    /\ UNCHANGED <<db_users, fc_gather>>
    /\ NotFc

\* An aiosqlite.Error in connect, execute or fetchall: the async with closes
\* the connection, if there is one, and the coroutine ends with the error.
CoroutineFails ==
    /\ \E c \in CoroutineNames :
        /\ fc_tasks[c].pc \in {"ready", "connected"}
        /\ fc_connections' =
               IF fc_tasks[c].conn # NoId
               THEN [fc_connections EXCEPT ![fc_tasks[c].conn] = "closed"]
               ELSE fc_connections
        /\ fc_tasks' = [fc_tasks EXCEPT ![c].pc = "failed"]
    /\ UNCHANGED <<db_users, fc_finished, fc_gather>>
    /\ NotFc

\* await asyncio.gather(...) returns once every coroutine has returned.
GatherReturns ==
    /\ fc_gather.pc = "waiting"
    /\ \A c \in CoroutineNames : fc_tasks[c].pc = "done"
    /\ fc_gather' = [pc |-> "returned",
                     result |-> GatherResults(fc_tasks, fc_finished)]
    /\ UNCHANGED <<db_users, fc_tasks, fc_connections, fc_finished>>
    /\ NotFc

\* await asyncio.gather(...) raises the first error; the other coroutine is
\* left running.
GatherRaises ==
    /\ fc_gather.pc = "waiting"
    /\ \E c \in CoroutineNames : fc_tasks[c].pc = "failed"
    /\ fc_gather' = [fc_gather EXCEPT !.pc = "raised"]
    /\ UNCHANGED <<db_users, fc_tasks, fc_connections, fc_finished>>
    /\ NotFc

FcNext ==
    \/ InsertDbUser
    \/ FetchConcurrentlyCall
    \/ Connect
    \/ Fetchall
    \/ CloseAndReturn
    \/ CoroutineFails
    \/ GatherReturns
    \/ GatherRaises

\* C19: the coroutines never use the same connection; when fetch_concurrently
\* returns, its result is the list (all users, users with age > 40), each as
\* its query read them, in that order whatever the order of finishing, and
\* every connection is closed.
C19_FetchConcurrently ==
    /\ \A c, d \in CoroutineNames :
          c # d /\ fc_tasks[c].conn # NoId => fc_tasks[c].conn # fc_tasks[d].conn
    /\ fc_gather.pc = "returned" =>
          /\ Len(fc_gather.result) = 2
          /\ fc_gather.result[1] = fc_tasks["async_fetch_users"].seen
          /\ fc_gather.result[2] =
                 SelectSeq(fc_tasks["async_fetch_older_users"].seen,
                           LAMBDA user : user.age > 40)
          /\ \A conn \in DOMAIN fc_connections : fc_connections[conn] = "closed"

\* Both connections were open at once, the query for the older users finished
\* first, and the list still starts with all users.
C19_Witness ==
    /\ fc_gather.pc = "returned"
    /\ fc_finished = <<"async_fetch_older_users", "async_fetch_users">>
    /\ fc_tasks["async_fetch_users"].conn = 1
    /\ fc_tasks["async_fetch_older_users"].conn = 2
    /\ Len(fc_gather.result[1]) = 2
    /\ Len(fc_gather.result[2]) = 1

(***************************************************************************)
(* Specifications                                                          *)
(***************************************************************************)
Init == RateInit /\ RoleInit /\ MsgInit /\ DecoInit /\ TimeInit /\ CpInit /\ GenInit /\ AnmInit /\ MemoInit /\ FcInit

SpecRateLimit == Init /\ [][RateNext]_vars

SpecRole == Init /\ [][RoleNext]_vars

SpecMessaging == Init /\ [][MsgNext]_vars

SpecSignals == Init /\ [][SignalsNext]_vars

SpecConversations == Init /\ [][ConversationsNext]_vars

SpecRetryTx == Init /\ [][RetryTxNext]_vars

SpecCache == Init /\ [][CacheNext]_vars

SpecTime == Init /\ [][TimeNext]_vars

SpecCachePage == Init /\ [][CpNext]_vars

SpecGenerators == Init /\ [][GenNext]_vars

SpecAccessNestedMap == Init /\ [][AnmNext]_vars

SpecMemoize == Init /\ [][MemoNext]_vars

SpecFetchConcurrently == Init /\ [][FcNext]_vars

====
